---- MODULE Spec2Model ----
(***************************************************************************)
(* Model of the data-set producers of the repository:                      *)
(*   src/data_sets/generate_data.py          (synthetic cluster generator) *)
(*   src/data_sets/convert_arff_to_binary.py (.arff to binary converter)   *)
(* Each script is a straight-line program; one action models one statement *)
(* of the script together with the exception it may raise and, inside a    *)
(* `with open(...)` block, the close of the file the block exit performs.  *)
(* One behaviour is a process run followed by re-runs with the same        *)
(* command line, so the destination file a run finds may be the file the   *)
(* previous run left.                                                      *)
(*                                                                         *)
(* Library calls are modelled by their documented behaviour:               *)
(*   int.to_bytes, numpy.arange/ndarray.tobytes/astype, csv.writer,        *)
(*   sklearn make_blobs / minmax_scale, scipy loadarff.                    *)
(* A numpy allocation of 2^32 or more elements raises MemoryError (the     *)
(* model's host cannot hold it).                                           *)
(***************************************************************************)
EXTENDS Integers, Sequences, FiniteSets, TLC

VARIABLES
    byteorder,      \* sys.byteorder of the host: "little" or "big"
    strict_params,  \* TRUE iff the installed sklearn validates make_blobs parameters
    tool,           \* which script this process runs: "generate" or "convert"
    args,           \* the parsed command line (argparse namespace)
    arff,           \* content of the converter's input file
    global_rng,     \* numpy's ambient global random state of this process
    pc,             \* position of the process in the script
    data,           \* the script's variable `data`
    file,           \* the destination file: [exists, content]
    written,        \* what this process has written through its file handle
    opened,         \* TRUE iff this process has opened the destination file
    completed,      \* TRUE iff this process has left its `with` block normally
    file_at_start,  \* the destination file as this process found it
    input_read,     \* TRUE iff this process has read the converter's input file
    err,            \* name of the exception that ended the run, "" if none
    run,            \* number of the current process run
    prev            \* outcome of the previous run with the same command line

vars == <<byteorder, strict_params, tool, args, arff, global_rng, pc, data,
          file, written, opened, completed, file_at_start, input_read, err,
          run, prev>>

----------------------------------------------------------------------------
(* Bounds of the model. *)

MaxSize == 2        \* largest small value of --size
MaxDims == 3        \* largest small value of --dims
MaxArffRows == 2    \* data rows of the converter's input
MaxArffAttrs == 2   \* declared attributes of the converter's input

----------------------------------------------------------------------------
(* Python integers (arbitrary precision): sign and magnitude, the          *)
(* magnitude as base-256 digits, least significant first, no leading zero. *)

RECURSIVE Digits(_)
Digits(n) == IF n = 0 THEN <<>> ELSE <<n % 256>> \o Digits(n \div 256)

PyInt(n) == [neg |-> n < 0, mag |-> Digits(IF n < 0 THEN -n ELSE n)]

\* 2^32, the first count a 4-byte unsigned field cannot hold
TwoPow32 == [neg |-> FALSE, mag |-> <<0, 0, 0, 0, 1>>]

IsSmall(p) == Len(p.mag) <= 3

RECURSIVE MagVal(_)
MagVal(m) == IF m = <<>> THEN 0 ELSE Head(m) + 256 * MagVal(Tail(m))

\* the value of a small Python integer
Val(p) == IF p.neg THEN -MagVal(p.mag) ELSE MagVal(p.mag)

IsZero(p) == p.mag = <<>>

Reverse(s) == [i \in 1..Len(s) |-> s[Len(s) + 1 - i]]

\* size_in_bytes(size_type) and size_in_bytes(real_type): itemsize of
\* np.uint32 and np.float32
SizeTypeBytes == 4
RealTypeBytes == 4

----------------------------------------------------------------------------
(* Python integer multiplication, `args.size * args.dims`. *)

RECURSIVE Norm(_)
Norm(m) == IF m = <<>> THEN <<>>
           ELSE IF m[Len(m)] = 0 THEN Norm(SubSeq(m, 1, Len(m) - 1)) ELSE m

RECURSIVE AddMag(_, _, _)
AddMag(a, b, c) ==
    IF a = <<>> /\ b = <<>> THEN (IF c = 0 THEN <<>> ELSE <<c>>)
    ELSE LET x == (IF a = <<>> THEN 0 ELSE Head(a))
                  + (IF b = <<>> THEN 0 ELSE Head(b)) + c
         IN  <<x % 256>> \o AddMag(IF a = <<>> THEN <<>> ELSE Tail(a),
                                   IF b = <<>> THEN <<>> ELSE Tail(b),
                                   x \div 256)

RECURSIVE ScaleMag(_, _, _)
ScaleMag(a, d, c) ==
    IF a = <<>> THEN Digits(c)
    ELSE LET x == Head(a) * d + c
         IN  <<x % 256>> \o ScaleMag(Tail(a), d, x \div 256)

RECURSIVE MulMag(_, _)
MulMag(a, b) ==
    IF b = <<>> THEN <<>>
    ELSE AddMag(ScaleMag(a, Head(b), 0), <<0>> \o MulMag(a, Tail(b)), 0)

Mul(p, q) ==
    LET m == Norm(MulMag(p.mag, q.mag))
    IN  [neg |-> m # <<>> /\ p.neg # q.neg, mag |-> m]

----------------------------------------------------------------------------
(* int.to_bytes(length, byteorder): the unsigned encoding of a Python int  *)
(* in exactly `length` bytes; OverflowError (ok = FALSE) for a negative    *)
(* int and for one that needs more than `length` bytes.                    *)

Pad(m, length) == m \o [i \in 1..(length - Len(m)) |-> 0]

\* the value stored modulo 2^(8*length), as a fixed-width store would
ToBytesWrapping(p, length, order) ==
    LET low == Pad(SubSeq(p.mag, 1, IF Len(p.mag) < length THEN Len(p.mag) ELSE length),
                   length)
    IN  [ok |-> ~p.neg,
         bytes |-> IF order = "little" THEN low ELSE Reverse(low)]

ToBytes(p, length, order) ==
    IF p.neg \/ Len(p.mag) > length
    THEN [ok |-> FALSE, bytes |-> <<>>]
    ELSE [ok |-> TRUE,
          bytes |-> IF order = "little" THEN Pad(p.mag, length)
                    ELSE Reverse(Pad(p.mag, length))]

----------------------------------------------------------------------------
(* np.float32 values: the IEEE-754 binary32 fields [s, e, m] (sign, biased *)
(* exponent, 23-bit fraction).                                             *)

RECURSIVE Pow2(_)
Pow2(n) == IF n = 0 THEN 1 ELSE 2 * Pow2(n - 1)

\* floor(log2(a / den)) for a, den > 0
RECURSIVE Log2Up(_, _)
Log2Up(a, den) == IF a < 2 * den THEN 0 ELSE 1 + Log2Up(a, 2 * den)
RECURSIVE Log2Down(_, _)
Log2Down(a, den) == IF a >= den THEN 0 ELSE Log2Down(2 * a, den) - 1
FloorLog2(a, den) == IF a >= den THEN Log2Up(a, den) ELSE Log2Down(a, den)

\* the binary32 nearest to num/den (round half to even), den > 0,
\* for the normal range the model's values lie in
Float32(num, den) ==
    IF num = 0 THEN [s |-> 0, e |-> 0, m |-> 0]
    ELSE LET a  == IF num < 0 THEN -num ELSE num
             x  == FloorLog2(a, den)
             \* a/den * 2^(23-x), as the fraction n/dd
             n  == IF x <= 23 THEN a * Pow2(23 - x) ELSE a
             dd == IF x <= 23 THEN den ELSE den * Pow2(x - 23)
             q  == n \div dd
             r  == n % dd
             up == (2 * r > dd) \/ (2 * r = dd /\ q % 2 = 1)
             sig == IF up THEN q + 1 ELSE q
         IN  IF sig = Pow2(24)
             THEN [s |-> IF num < 0 THEN 1 ELSE 0, e |-> x + 128, m |-> 0]
             ELSE [s |-> IF num < 0 THEN 1 ELSE 0, e |-> x + 127, m |-> sig - Pow2(23)]

\* the integer a binary32 with an integral value holds
IntOfF32(f) ==
    IF f.e = 0 THEN 0
    ELSE LET v == (Pow2(23) + f.m) \div Pow2(23 - (f.e - 127))
         IN  IF f.s = 1 THEN -v ELSE v

\* the 4 bytes of one binary32 in the host's byte order
F32Bytes(f, order) ==
    LET be == << f.s * 128 + f.e \div 2,
                 (f.e % 2) * 128 + f.m \div 65536,
                 (f.m \div 256) % 256,
                 f.m % 256 >>
    IN  IF order = "big" THEN be ELSE Reverse(be)

----------------------------------------------------------------------------
(* numpy arrays: [shape, vals], vals the elements in C (row-major) order.  *)

NDim(a) == Len(a.shape)

RECURSIVE Flatten(_)
Flatten(ss) == IF ss = <<>> THEN <<>> ELSE Head(ss) \o Flatten(Tail(ss))

\* the elements of a two-dimensional array in Fortran (column-major) order
ToBytesArrayColumnMajor(a, order) ==
    IF NDim(a) < 2 THEN Flatten([i \in 1..Len(a.vals) |-> F32Bytes(a.vals[i], order)])
    ELSE Flatten([k \in 1..Len(a.vals) |->
             F32Bytes(a.vals[((k - 1) % a.shape[1]) * a.shape[2]
                             + ((k - 1) \div a.shape[1]) + 1], order)])

\* ndarray.tobytes(): the elements in C order, each in the host byte order
ToBytesArray(a, order) ==
    Flatten([i \in 1..Len(a.vals) |-> F32Bytes(a.vals[i], order)])

\* np.arange(n, dtype=real_type): 0.0, 1.0, ..., n-1 as a one-dimensional
\* array; empty for n <= 0
Arange(n) ==
    IF n.neg \/ IsZero(n)
    THEN [ok |-> TRUE, err |-> "", arr |-> [shape |-> <<0>>, vals |-> <<>>]]
    ELSE IF ~IsSmall(n)
    THEN [ok |-> FALSE, err |-> "MemoryError", arr |-> [shape |-> <<0>>, vals |-> <<>>]]
    ELSE [ok |-> TRUE, err |-> "",
          arr |-> [shape |-> <<Val(n)>>,
                   vals |-> [i \in 1..Val(n) |-> Float32(i - 1, 1)]]]

----------------------------------------------------------------------------
(* sklearn.datasets.make_blobs(n_samples, n_features, centers, cluster_std, *)
(* shuffle=True, random_state)[0].astype(real_type).                        *)
(* The pseudo-random stream of RandomState(seed) is abstracted to a small   *)
(* linear congruential generator; centers are drawn first, then the noise   *)
(* of every sample, then the shuffle.                                       *)

RECURSIVE RandState(_, _)
RandState(seed, i) == IF i = 0 THEN seed % 16 ELSE (5 * RandState(seed, i - 1) + 3) % 16

\* the i-th draw, in {-1, 0, 1}
Draw(seed, i) == (RandState(seed, i) % 3) - 1

NoArray == [shape |-> <<>>, vals |-> <<>>]

Raise(e) == [ok |-> FALSE, err |-> e, arr |-> NoArray]
Return(a) == [ok |-> TRUE, err |-> "", arr |-> a]

\* first sample (0-based) of cluster j when n samples are spread over k clusters
ClusterStart(j, n, k) == j * (n \div k) + (IF j < n % k THEN j ELSE n % k)

ClusterOf(t, n, k) ==
    CHOOSE j \in 0..(k - 1) : ClusterStart(j, n, k) <= t /\ t < ClusterStart(j + 1, n, k)

BlobValues(n, d, k, std, seed) ==
    LET center(j, c) == 2 * Draw(seed, j * d + c + 1)
        noise(t, c)  == Draw(seed, k * d + t * d + c + 1)
        rot          == IF n = 0 THEN 0 ELSE RandState(seed, k * d + n * d + 1) % n
        x0(t, c)     == center(ClusterOf(t, n, k), c) + std * noise(t, c)
    IN  [i \in 1..(n * d) |->
            LET r == (i - 1) \div d
                c == (i - 1) % d
            IN  Float32(x0((r + rot) % n, c), 1)]

MakeBlobs(n_samples, n_features, centers, cluster_std, random_state) ==
    IF strict_params /\ (n_samples.neg \/ IsZero(n_samples) \/ n_features.neg
                         \/ IsZero(n_features) \/ centers < 1 \/ cluster_std < 0)
    THEN Raise("InvalidParameterError")
    ELSE IF n_features.neg \/ centers < 0 THEN Raise("ValueError")
    ELSE IF centers = 0 THEN Raise("ZeroDivisionError")
    ELSE IF ~IsSmall(n_features) THEN Raise("MemoryError")
    ELSE IF n_samples.neg \/ cluster_std < 0 THEN Raise("ValueError")
    ELSE IF ~IsSmall(n_samples) THEN Raise("MemoryError")
    ELSE Return([shape |-> <<Val(n_samples), Val(n_features)>>,
                 vals |-> BlobValues(Val(n_samples), Val(n_features), centers,
                                     cluster_std, random_state)])

----------------------------------------------------------------------------
(* sklearn.preprocessing.minmax_scale(data, feature_range=(0, 1),          *)
(* copy=False): every column is rescaled in place to [0, 1]; a             *)
(* one-dimensional array is one column; a column of zero range maps to 0;  *)
(* ValueError for an array without samples or without features.            *)

SetMin(S) == CHOOSE x \in S : \A y \in S : x <= y
SetMax(S) == CHOOSE x \in S : \A y \in S : x >= y

MinMaxScale(a) ==
    LET rows == a.shape[1]
        cols == IF NDim(a) = 1 THEN 1 ELSE a.shape[2]
        v(i) == IntOfF32(a.vals[i])
        col(c) == {v((r - 1) * cols + c) : r \in 1..rows}
    IN  IF rows = 0 \/ cols = 0 THEN Raise("ValueError")
        ELSE Return([shape |-> a.shape,
                     vals |-> [i \in 1..Len(a.vals) |->
                         LET c  == ((i - 1) % cols) + 1
                             lo == SetMin(col(c))
                             hi == SetMax(col(c))
                         IN  IF hi = lo THEN Float32(0, 1)
                             ELSE Float32(v(i) - lo, hi - lo)]])

----------------------------------------------------------------------------
(* scipy.io.arff.loadarff(input)[0] followed by                            *)
(* np.array(data.tolist(), dtype=real_type).  The input file is            *)
(* [attrs, rows]: the number of declared attributes and the data rows,     *)
(* each a sequence of numeric fields.                                      *)

LoadArff(f) ==
    IF \E i \in 1..Len(f.rows) : Len(f.rows[i]) < f.attrs
    THEN [ok |-> FALSE, err |-> "IndexError", records |-> <<>>]
    ELSE [ok |-> TRUE, err |-> "",
          records |-> [i \in 1..Len(f.rows) |-> SubSeq(f.rows[i], 1, f.attrs)]]

\* np.array(list of tuples, dtype=real_type): n tuples of c fields give
\* shape (n, c); an empty list gives the one-dimensional shape (0,)
NpArray(records) ==
    IF records = <<>> THEN [shape |-> <<0>>, vals |-> <<>>]
    ELSE [shape |-> <<Len(records), Len(records[1])>>,
          vals |-> Flatten([i \in 1..Len(records) |->
                       [j \in 1..Len(records[i]) |-> Float32(records[i][j], 1)]])]

----------------------------------------------------------------------------
(* Files.  A file is [exists, content]; content is a sequence of bytes     *)
(* [b |-> 0..255] (binary mode) or of lines [line |-> fields] (text mode). *)

Bytes(bs) == [i \in 1..Len(bs) |-> [b |-> bs[i]]]

\* open(name, 'a...'): keeps what the file held
OpenForAppend(f) == [exists |-> TRUE, content |-> f.content]

\* open(name, 'wb') / open(name, 'w'): creates the file or truncates it
OpenForWrite(f) == [exists |-> TRUE, content |-> <<>>]

\* leaving the `with` block: the buffered writes reach the file, which is closed
Close(f, w) == [f EXCEPT !.content = @ \o w]

\* str.endswith on file names, names being sequences of characters
EndsWith(name, suffix) ==
    /\ Len(name) >= Len(suffix)
    /\ SubSeq(name, Len(name) - Len(suffix) + 1, Len(name)) = suffix

DotArff == <<".", "a", "r", "f", "f">>

\* csv.writer.writerows(data): one line per element of the first axis; an
\* element that is not iterable (a scalar of a one-dimensional array)
\* raises csv.Error, the lines before it having been written
WriteRows(a) ==
    IF NDim(a) = 1
    THEN [ok |-> a.shape[1] = 0, lines |-> <<>>]
    ELSE [ok |-> TRUE,
          lines |-> [r \in 1..a.shape[1] |->
                       [line |-> SubSeq(a.vals, (r - 1) * a.shape[2] + 1, r * a.shape[2])]]]

----------------------------------------------------------------------------
(* Command lines and input files the model runs the scripts on. *)

SizeInputs == {PyInt(n) : n \in -1..MaxSize} \cup {TwoPow32}
DimsInputs == {PyInt(n) : n \in -1..MaxDims} \cup {TwoPow32}

\* <<--num_cluster, --cluster_std>>: the defaults, and each one out of range
ClusterInputs == {<<3, 1>>, <<0, 1>>, <<3, 0>>, <<3, -1>>}

GenArgs ==
    {[size |-> s, dims |-> d, num_cluster |-> c[1], cluster_std |-> c[2],
      scale |-> sc, binary |-> b, debug |-> dbg] :
        s \in SizeInputs, d \in DimsInputs, c \in ClusterInputs,
        sc \in BOOLEAN, b \in BOOLEAN, dbg \in BOOLEAN}

InputNames == {<<"d", ".", "a", "r", "f", "f">>, <<"d", ".", "c", "s", "v">>}
OutputNames == {<<"o", ".", "b", "i", "n">>, <<"o", ".", "a", "r", "f", "f">>}

ConvArgs == [input_file : InputNames, output_file : OutputNames]

\* an .arff file declaring c attributes with n data rows; `short` drops the
\* last field of the last row
ArffFile(c, n, short) ==
    [attrs |-> c,
     rows |-> [r \in 1..n |->
                 [j \in 1..(IF short /\ r = n THEN c - 1 ELSE c) |-> r - j]]]

ArffInputs ==
    {ArffFile(c, n, FALSE) : c \in 1..MaxArffAttrs, n \in 0..MaxArffRows}
    \cup {ArffFile(c, n, TRUE) : c \in 1..MaxArffAttrs, n \in 1..MaxArffRows}

NoArff == [attrs |-> 0, rows |-> <<>>]

\* seeds the operating system may give the ambient random state of a process
RngSeeds == {3, 11}

\* what the destination may hold before the first run
OldContent == Bytes(<<222, 173>>)

NoPrev == [pc |-> "none", err |-> "", data |-> NoArray, written |-> <<>>,
           opened |-> FALSE, rng |-> 0]

Start(t) == IF t = "generate" THEN "generate" ELSE "check_names"

Init ==
    /\ byteorder \in {"little", "big"}
    /\ strict_params \in BOOLEAN
    /\ tool \in {"generate", "convert"}
    /\ args \in (IF tool = "generate" THEN GenArgs ELSE ConvArgs)
    /\ arff \in (IF tool = "generate" THEN {NoArff} ELSE ArffInputs)
    /\ global_rng \in RngSeeds
    /\ pc = Start(tool)
    /\ data = NoArray
    /\ file \in {[exists |-> FALSE, content |-> <<>>],
                 [exists |-> TRUE, content |-> OldContent]}
    /\ written = <<>>
    /\ opened = FALSE
    /\ completed = FALSE
    /\ file_at_start = file
    /\ input_read = FALSE
    /\ err = ""
    /\ run = "first"
    /\ prev = NoPrev

env == <<byteorder, strict_params, tool, args, arff, global_rng, run, prev,
         file_at_start>>

----------------------------------------------------------------------------
(* generate_data.py *)

\* lines 41-42: the library call with its fixed random_state
BlobsCallAmbient ==
    MakeBlobs(args.size, args.dims, args.num_cluster, args.cluster_std, global_rng)

BlobsCall ==
    MakeBlobs(args.size, args.dims, args.num_cluster, args.cluster_std, 1)

\* lines 38-42
GenerateData ==
    /\ tool = "generate" /\ pc = "generate"
    /\ LET r == IF args.debug THEN Arange(Mul(args.size, args.dims)) ELSE BlobsCall
       IN  IF r.ok
           THEN data' = r.arr /\ pc' = "scale" /\ err' = err
           ELSE data' = data /\ pc' = "failed" /\ err' = r.err
    /\ UNCHANGED <<env, file, written, opened, completed, input_read>>

\* lines 46-47
ScaleData ==
    /\ tool = "generate" /\ pc = "scale"
    /\ IF args.scale
       THEN LET r == MinMaxScale(data)
            IN  IF r.ok
                THEN data' = r.arr /\ pc' = "open" /\ err' = err
                ELSE data' = data /\ pc' = "failed" /\ err' = r.err
       ELSE data' = data /\ pc' = "open" /\ err' = err
    /\ UNCHANGED <<env, file, written, opened, completed, input_read>>

\* lines 52 and 58
GenOpen ==
    /\ tool = "generate" /\ pc = "open"
    /\ file' = OpenForWrite(file)
    /\ opened' = TRUE
    /\ written' = <<>>
    /\ pc' = "write_size"
    /\ UNCHANGED <<env, data, completed, input_read, err>>

\* one header field: 4 bytes in binary mode, a one-field line in text mode
HeaderField(n, binary) ==
    IF binary
    THEN LET r == ToBytes(n, SizeTypeBytes, byteorder)
         IN  [ok |-> r.ok, out |-> Bytes(r.bytes)]
    ELSE [ok |-> TRUE, out |-> <<[line |-> <<n>>]>>]

\* lines 53 and 60
GenWriteSize ==
    /\ tool = "generate" /\ pc = "write_size"
    /\ LET r == HeaderField(args.size, args.binary)
       IN  IF r.ok
           THEN /\ written' = written \o r.out
                /\ pc' = "write_dims" /\ err' = err /\ file' = file
           ELSE /\ written' = written
                /\ pc' = "failed" /\ err' = "OverflowError"
                /\ file' = Close(file, written)
    /\ UNCHANGED <<env, data, opened, completed, input_read>>

\* lines 54 and 61
GenWriteDims ==
    /\ tool = "generate" /\ pc = "write_dims"
    /\ LET r == HeaderField(args.dims, args.binary)
       IN  IF r.ok
           THEN /\ written' = written \o r.out
                /\ pc' = "write_data" /\ err' = err /\ file' = file
           ELSE /\ written' = written
                /\ pc' = "failed" /\ err' = "OverflowError"
                /\ file' = Close(file, written)
    /\ UNCHANGED <<env, data, opened, completed, input_read>>

\* lines 55 and 62, and the end of the `with` block
GenWriteData ==
    /\ tool = "generate" /\ pc = "write_data"
    /\ LET r == IF args.binary
                THEN [ok |-> TRUE, lines |-> Bytes(ToBytesArray(data, byteorder))]
                ELSE WriteRows(data)
       IN  /\ written' = written \o r.lines
           /\ file' = Close(file, written')
           /\ IF r.ok THEN pc' = "plot" /\ err' = err /\ completed' = TRUE
                      ELSE pc' = "failed" /\ err' = "csv.Error" /\ completed' = FALSE
    /\ UNCHANGED <<env, data, opened, input_read>>

\* lines 66-73: data[:, 0] needs a two-dimensional array
GenPlot ==
    /\ tool = "generate" /\ pc = "plot"
    /\ IF (args.dims = PyInt(2) \/ args.dims = PyInt(3)) /\ NDim(data) < 2
       THEN pc' = "failed" /\ err' = "IndexError"
       ELSE pc' = "done" /\ err' = err
    /\ UNCHANGED <<env, data, file, written, opened, completed, input_read>>

----------------------------------------------------------------------------
(* convert_arff_to_binary.py *)

\* the check of the input name alone
ConvCheckInputNameOnly ==
    /\ tool = "convert" /\ pc = "check_names"
    /\ IF ~EndsWith(args.input_file, DotArff)
       THEN pc' = "failed" /\ err' = "ValueError"
       ELSE pc' = "load" /\ err' = err
    /\ UNCHANGED <<env, data, file, written, opened, completed, input_read>>

\* lines 26-29
ConvCheckNames ==
    /\ tool = "convert" /\ pc = "check_names"
    /\ IF ~EndsWith(args.input_file, DotArff) \/ EndsWith(args.output_file, DotArff)
       THEN pc' = "failed" /\ err' = "ValueError"
       ELSE pc' = "load" /\ err' = err
    /\ UNCHANGED <<env, data, file, written, opened, completed, input_read>>

\* lines 32-33
ConvLoad ==
    /\ tool = "convert" /\ pc = "load"
    /\ input_read' = TRUE
    /\ LET r == LoadArff(arff)
       IN  IF r.ok
           THEN data' = NpArray(r.records) /\ pc' = "open" /\ err' = err
           ELSE data' = data /\ pc' = "failed" /\ err' = r.err
    /\ UNCHANGED <<env, file, written, opened, completed>>

\* line 37
ConvOpen ==
    /\ tool = "convert" /\ pc = "open"
    /\ file' = OpenForWrite(file)
    /\ opened' = TRUE
    /\ written' = <<>>
    /\ pc' = "write_rows"
    /\ UNCHANGED <<env, data, completed, input_read, err>>

\* line 38
ConvWriteRows ==
    /\ tool = "convert" /\ pc = "write_rows"
    /\ LET r == ToBytes(PyInt(data.shape[1]), SizeTypeBytes, byteorder)
       IN  IF r.ok
           THEN /\ written' = written \o Bytes(r.bytes)
                /\ pc' = "write_cols" /\ err' = err /\ file' = file
           ELSE /\ written' = written
                /\ pc' = "failed" /\ err' = "OverflowError"
                /\ file' = Close(file, written)
    /\ UNCHANGED <<env, data, opened, completed, input_read>>

\* line 39: data.shape[1] of a one-dimensional array raises IndexError
ConvWriteCols ==
    /\ tool = "convert" /\ pc = "write_cols"
    /\ IF NDim(data) < 2
       THEN /\ written' = written
            /\ pc' = "failed" /\ err' = "IndexError"
            /\ file' = Close(file, written)
       ELSE LET r == ToBytes(PyInt(data.shape[2]), SizeTypeBytes, byteorder)
            IN  IF r.ok
                THEN /\ written' = written \o Bytes(r.bytes)
                     /\ pc' = "write_data" /\ err' = err /\ file' = file
                ELSE /\ written' = written
                     /\ pc' = "failed" /\ err' = "OverflowError"
                     /\ file' = Close(file, written)
    /\ UNCHANGED <<env, data, opened, completed, input_read>>

\* line 40, and the end of the `with` block
ConvWriteData ==
    /\ tool = "convert" /\ pc = "write_data"
    /\ written' = written \o Bytes(ToBytesArray(data, byteorder))
    /\ file' = Close(file, written')
    /\ pc' = "done"
    /\ completed' = TRUE
    /\ UNCHANGED <<env, data, opened, input_read, err>>

----------------------------------------------------------------------------
(* The same command line is run once more, in a fresh process, on the      *)
(* files the first run left.                                               *)

Ended == pc \in {"done", "failed"}

RunAgain ==
    /\ Ended /\ run = "first"
    /\ prev' = [pc |-> pc, err |-> err, data |-> data, written |-> written,
                opened |-> opened, rng |-> global_rng]
    /\ run' = "again"
    /\ global_rng' \in RngSeeds
    /\ pc' = Start(tool)
    /\ data' = NoArray
    /\ written' = <<>>
    /\ opened' = FALSE
    /\ completed' = FALSE
    /\ file_at_start' = file
    /\ input_read' = FALSE
    /\ err' = ""
    /\ UNCHANGED <<byteorder, strict_params, tool, args, arff, file>>

Next ==
    \/ GenerateData
    \/ ScaleData
    \/ GenOpen
    \/ GenWriteSize
    \/ GenWriteDims
    \/ GenWriteData
    \/ GenPlot
    \/ ConvCheckNames
    \/ ConvLoad
    \/ ConvOpen
    \/ ConvWriteRows
    \/ ConvWriteCols
    \/ ConvWriteData
    \/ RunAgain

Spec == Init /\ [][Next]_vars

----------------------------------------------------------------------------
(* The reader's side of the format (spec section 4.1, Decode): two 4-byte  *)
(* unsigned integers rows and cols, then rows*cols values of the numeric   *)
(* type, all in the host byte order.                                       *)

Unbytes(content) == [i \in 1..Len(content) |-> content[i].b]

\* int.from_bytes(bytes, byteorder)
FromBytes(bs, order) ==
    [neg |-> FALSE, mag |-> Norm(IF order = "little" THEN bs ELSE Reverse(bs))]

\* the binary32 held by 4 bytes in the given byte order
F32FromBytes(bs, order) ==
    LET be == IF order = "big" THEN bs ELSE Reverse(bs)
    IN  [s |-> be[1] \div 128,
         e |-> (be[1] % 128) * 2 + be[2] \div 128,
         m |-> (be[2] % 128) * 65536 + be[3] * 256 + be[4]]

Truncated == [ok |-> FALSE, rows |-> PyInt(0), cols |-> PyInt(0), values |-> <<>>]

Decode(bs, order) ==
    IF Len(bs) < 2 * SizeTypeBytes THEN Truncated
    ELSE LET rows == FromBytes(SubSeq(bs, 1, SizeTypeBytes), order)
             cols == FromBytes(SubSeq(bs, SizeTypeBytes + 1, 2 * SizeTypeBytes), order)
             n    == Mul(rows, cols)
         IN  IF ~IsSmall(n) \/ Len(bs) < 2 * SizeTypeBytes + Val(n) * RealTypeBytes
             THEN Truncated
             ELSE [ok |-> TRUE, rows |-> rows, cols |-> cols,
                   values |-> [i \in 1..Val(n) |->
                       F32FromBytes(SubSeq(bs, 2 * SizeTypeBytes + (i - 1) * RealTypeBytes + 1,
                                               2 * SizeTypeBytes + i * RealTypeBytes),
                                    order)]]

----------------------------------------------------------------------------
(* Vocabulary of the properties. *)

BinaryMode == tool = "convert" \/ args.binary

\* the row and column count the run writes into the header
HeaderRows == IF tool = "generate" THEN args.size ELSE PyInt(data.shape[1])
HeaderCols == IF tool = "generate" THEN args.dims ELSE PyInt(data.shape[2])

\* a count a 4-byte unsigned field can hold
InRange(n) == ~n.neg /\ Len(n.mag) <= SizeTypeBytes

BinaryWritten == completed /\ BinaryMode

----------------------------------------------------------------------------
(* C1: once a binary write has completed, the destination holds exactly    *)
(* rows (4 bytes), cols (4 bytes) and the rows*cols values in row-major    *)
(* order: 8 + rows*cols*sizeof(T) bytes, none of them from the content the *)
(* destination had before the run.                                         *)
C1_BinaryLayout ==
    BinaryWritten =>
        LET bs == Unbytes(file.content)
            n  == Val(Mul(HeaderRows, HeaderCols))
        IN  /\ file.exists
            /\ Len(bs) = 8 + n * RealTypeBytes
            /\ SubSeq(bs, 1, 4) = ToBytes(HeaderRows, 4, byteorder).bytes
            /\ SubSeq(bs, 5, 8) = ToBytes(HeaderCols, 4, byteorder).bytes
            /\ Len(data.vals) = n
            /\ \A i \in 1..n :
                 SubSeq(bs, 8 + 4 * (i - 1) + 1, 8 + 4 * i) = F32Bytes(data.vals[i], byteorder)

\* a binary write of a non-empty matrix completed over a destination that
\* already held something
C1_Witness ==
    /\ BinaryWritten
    /\ file_at_start.exists /\ file_at_start.content # <<>>
    /\ Len(data.vals) >= 2

(* C2: round trip.  Decoding the bytes a completed binary write left       *)
(* yields the matrix that was written: the same rows, cols and values in   *)
(* the same order.                                                         *)
C2_RoundTrip ==
    BinaryWritten =>
        Decode(Unbytes(file.content), byteorder)
            = [ok |-> TRUE, rows |-> HeaderRows, cols |-> HeaderCols, values |-> data.vals]

\* a written matrix of at least 2 x 2 values, one of them negative, whose
\* row-major and column-major orders differ
C2_Witness ==
    /\ BinaryWritten
    /\ NDim(data) = 2 /\ data.shape[1] >= 2 /\ data.shape[2] >= 2
    /\ \E i \in 1..Len(data.vals) : data.vals[i].s = 1
    /\ data.vals[2] # data.vals[data.shape[2] + 1]

(* C10: header fields never wrap.  A count that is negative or at least    *)
(* 2^32 makes the binary write fail with OverflowError at that field, and  *)
(* every completed file's header fields read back as the true counts.      *)
C10_HeaderNeverWraps ==
    (BinaryMode /\ opened) =>
        /\ ~InRange(HeaderRows) =>
              /\ written = <<>>
              /\ pc = "write_size" \/ (pc = "failed" /\ err = "OverflowError")
        /\ (InRange(HeaderRows) /\ pc \notin {"write_size", "write_rows"}
              /\ ~(tool = "convert" /\ NDim(data) < 2) /\ ~InRange(HeaderCols)) =>
              /\ Len(written) = SizeTypeBytes
              /\ pc = "write_dims" \/ (pc = "failed" /\ err = "OverflowError")
        /\ completed =>
              /\ Len(file.content) >= 2 * SizeTypeBytes
              /\ FromBytes(SubSeq(Unbytes(file.content), 1, SizeTypeBytes), byteorder)
                    = HeaderRows
              /\ FromBytes(SubSeq(Unbytes(file.content), SizeTypeBytes + 1,
                                  2 * SizeTypeBytes), byteorder)
                    = HeaderCols

\* a run asked to write 2^32 rows ended in OverflowError
C10_Witness ==
    /\ BinaryMode /\ opened
    /\ HeaderRows = TwoPow32
    /\ pc = "failed" /\ err = "OverflowError"

(* C3: a header that disagrees with the payload is never written: when the *)
(* number of values in `data` differs from the rows*cols of the header,    *)
(* the run fails with InvalidShape before any byte is written.             *)
DataBuilt == pc \in {"scale", "open", "write_size", "write_dims", "write_data", "plot",
                     "done"} \/ opened

ShapeMismatch ==
    /\ tool = "generate" /\ args.binary /\ DataBuilt
    /\ PyInt(Len(data.vals)) # Mul(args.size, args.dims)

C3_ShapeCheckedBeforeWrite ==
    /\ ShapeMismatch => written = <<>>
    /\ (ShapeMismatch /\ Ended) => (pc = "failed" /\ err = "InvalidShape")
    /\ BinaryWritten => PyInt(Len(data.vals)) = Mul(HeaderRows, HeaderCols)

(* C4: a matrix with zero rows and c >= 1 columns is written as a          *)
(* header-only file of exactly 8 bytes (rows = 0, cols = c) by the         *)
(* generator run with size 0 and by the converter run on a well-formed     *)
(* input with c attributes and no data row.  The generator runs taken are  *)
(* those whose library calls accept an empty matrix (no --scale, and       *)
(* --debug or a make_blobs that does not require n_samples >= 1).          *)
ZeroRowRun ==
    \/ /\ tool = "generate" /\ args.binary
       /\ args.size = PyInt(0) /\ ~args.dims.neg /\ ~IsZero(args.dims) /\ IsSmall(args.dims)
       /\ args.num_cluster >= 1 /\ args.cluster_std > 0
       /\ ~args.scale /\ (args.debug \/ ~strict_params)
    \/ /\ tool = "convert"
       /\ EndsWith(args.input_file, DotArff) /\ ~EndsWith(args.output_file, DotArff)
       /\ arff.attrs >= 1 /\ arff.rows = <<>>

ZeroRowCols == IF tool = "generate" THEN args.dims ELSE PyInt(arff.attrs)

C4_ZeroRowsHeaderOnly ==
    (ZeroRowRun /\ Ended) =>
        /\ file.exists
        /\ file.content = Bytes(ToBytes(PyInt(0), 4, byteorder).bytes
                                \o ToBytes(ZeroRowCols, 4, byteorder).bytes)

(* C5: no partial success.  A run that ends in failure leaves no partially *)
(* written output: the destination is as the run found it, or holds the    *)
(* complete encoding.  Stated for the runs with valid generator parameters *)
(* and valid converter file names.                                         *)
InvalidParameters ==
    /\ tool = "generate"
    /\ \/ args.size.neg
       \/ args.dims.neg \/ IsZero(args.dims)
       \/ args.num_cluster < 1
       \/ args.cluster_std <= 0

C5_NoPartialOutput ==
    (pc = "failed" /\ ~InvalidParameters) => (file = file_at_start \/ completed)

(* C6: a generator run with sample_count < 0, dim_count < 1,               *)
(* cluster_count < 1 or cluster_std <= 0 fails in every mode, --debug      *)
(* included; no such run ends successfully.                                *)
C6_InvalidParametersRejected ==
    (InvalidParameters /\ Ended) => pc = "failed"

(* C7: for every accepted (size, dims, num_cluster) the data the generator *)
(* builds is a matrix with exactly `size` rows and `dims` columns, in the  *)
(* clustered and in the --debug path.                                      *)
C7_DataIsSizeByDims ==
    (tool = "generate" /\ ~InvalidParameters /\ DataBuilt) =>
        (NDim(data) = 2 /\ PyInt(data.shape[1]) = args.size /\ PyInt(data.shape[2]) = args.dims)

(* C8: determinism.  A generator run repeated with the same arguments ends *)
(* the same way with bit-identical data and has written the same bytes,    *)
(* and the file it wrote holds nothing but those bytes, whatever the       *)
(* ambient random state and the previous content of the destination.       *)
C8_Deterministic ==
    (tool = "generate" /\ run = "again" /\ Ended) =>
        /\ prev.pc = pc /\ prev.err = err
        /\ prev.data = data
        /\ prev.written = written
        /\ opened => file.content = written

\* two completed clustered runs under different ambient random states
C8_Witness ==
    /\ tool = "generate" /\ run = "again" /\ pc = "done"
    /\ ~args.debug /\ Len(data.vals) >= 2
    /\ prev.rng # global_rng
    /\ \E i, j \in 1..Len(data.vals) : data.vals[i] # data.vals[j]

(* C9: the converter checks the file names before touching any file.  If   *)
(* --input_file does not end with '.arff' or --output_file does, the run    *)
(* ends with ValueError, the input unread and the output as it was; the    *)
(* output is opened only after both checks and the import have succeeded.  *)
BadNames == ~EndsWith(args.input_file, DotArff) \/ EndsWith(args.output_file, DotArff)

C9_NamesCheckedFirst ==
    tool = "convert" =>
        /\ BadNames =>
              /\ ~input_read /\ ~opened /\ file = file_at_start
              /\ Ended => (pc = "failed" /\ err = "ValueError")
        /\ input_read => ~BadNames
        /\ opened => (~BadNames /\ input_read /\ LoadArff(arff).ok
                        /\ data = NpArray(LoadArff(arff).records))

\* a run with a good input name and a bad output name ended in ValueError
\* next to an existing destination
C9_Witness ==
    /\ tool = "convert" /\ pc = "failed" /\ err = "ValueError"
    /\ EndsWith(args.input_file, DotArff) /\ EndsWith(args.output_file, DotArff)
    /\ file.exists

====
